---- MODULE Spec2Model ----
(***************************************************************************)
(* In-memory trace storage of the groupbytrace processor                   *)
(* (processor/groupbytraceprocessor/storage_memory.go).                    *)
(*                                                                         *)
(* The store is a map from the hex form of a trace ID to a slice of        *)
(* ResourceSpans.  A ResourceSpans value is a handle on a heap object: two *)
(* handles with the same object id alias, CopyTo writes the payload of one *)
(* object into another.  Caller goroutines run createOrAppend, get,        *)
(* delete, count and shutdown step by step (lock, body, deferred unlock,   *)
(* return); start spawns a periodicMetrics chain that re-arms itself with  *)
(* time.AfterFunc until it reads stopped = true.                           *)
(***************************************************************************)
EXTENDS Integers, Sequences, FiniteSets, TLC

\* ---------------------------------------------------------------- bounds
NumThreads == 2
MaxCalls == 3
MaxStarts == 2
FairCalls == 3

\* ------------------------------------------------------------- universe
None == 0
NoObj == 0
Threads == 1..NumThreads
Chains == (NumThreads + 1)..(NumThreads + MaxStarts)
TraceIDs == {<<170>>, <<187>>}

VARIABLES
  content,      \* st.content: hex key -> sequence of object ids
  heap,         \* object id -> payload of the ResourceSpans object
  mu,           \* the embedded sync.RWMutex guarding content
  stoppedLock,  \* st.stoppedLock
  stopped,      \* st.stopped
  pc,           \* position of every caller goroutine
  key,          \* sTraceID of the call in progress
  arg,          \* rs argument of createOrAppend (held by the caller)
  tmp,          \* createOrAppend: the slice append() built, not yet stored
  ret,          \* value handed back to the caller
  calls,        \* number of calls issued so far
  cpc,          \* position of every periodicMetrics chain
  numTraces,    \* local numTraces of a chain
  cstopped,     \* local stopped of a chain
  gauge,        \* last value recorded for mNumTracesInMemory
  seqv,         \* history: entry built by non-overlapping calls, or Tainted
  iso,          \* history: the call in progress overlaps no writer of its key
  nApp,         \* history: payloads of the createOrAppend calls that returned
  nDel,         \* history: payloads handed back by the delete calls that returned
  live,         \* history: last call returned for the key was a createOrAppend
  delCalled,    \* history: keys some delete call was issued for
  lastW         \* history: last call to release the data lock for the key was a createOrAppend

vars == <<content, heap, mu, stoppedLock, stopped, pc, key, arg, tmp, ret, calls,
          cpc, numTraces, cstopped, gauge, seqv, iso, nApp, nDel, live, delCalled, lastW>>

\* --------------------------------------------------- pdata.TraceID.HexString
HexDigits == <<"0", "1", "2", "3", "4", "5", "6", "7",
               "8", "9", "a", "b", "c", "d", "e", "f">>

HexByte(b) == <<HexDigits[(b \div 16) + 1], HexDigits[(b % 16) + 1]>>

RECURSIVE HexString(_)
HexString(id) ==
  IF id = <<>> THEN <<>> ELSE HexByte(Head(id)) \o HexString(Tail(id))

Keys == {HexString(id) : id \in TraceIDs}

\* ------------------------------------------------------------ sync.RWMutex
\* pending: the writer that called Lock and waits for the readers to leave;
\* while a writer is pending or holds the lock, RLock blocks.
FreeLock == [pending |-> None, writer |-> None, readers |-> {}]

\* a Lock that does not wait for the writer holding the lock
CanAnnounceNoWriter(l) == l.pending = None

CanAnnounce(l) == l.pending = None /\ l.writer = None

Announce(l, p) == [l EXCEPT !.pending = p]

CanLock(l, p) == l.pending = p /\ l.readers = {}

\* a Lock that returns without the lock being held
LockNotHeld(l, p) == [l EXCEPT !.pending = None]

Lock(l, p) == [l EXCEPT !.pending = None, !.writer = p]

Unlock(l) == [l EXCEPT !.writer = None]

\* an RLock that does not wait for the writer holding the lock
CanRLockNoWriter(l) == l.pending = None

CanRLock(l) == l.pending = None /\ l.writer = None

RLock(l, p) == [l EXCEPT !.readers = @ \cup {p}]

\* an RUnlock that leaves the read lock taken
RUnlockNoop(l, p) == l

RUnlock(l, p) == [l EXCEPT !.readers = @ \ {p}]

\* ----------------------------------------------------- heap of ResourceSpans
Range(s) == {s[i] : i \in DOMAIN s}

Remove(f, k) == [x \in (DOMAIN f) \ {k} |-> f[x]]

\* pdata.NewResourceSpans(): the lowest object id not in use
NewResourceSpans(h) == CHOOSE o \in 1..(Cardinality(DOMAIN h) + 1) : o \notin DOMAIN h

\* rs.CopyTo(newRS) for every rs of a slice, appended to a nil result
RECURSIVE CopyAll(_, _)
CopyAll(h, s) ==
  IF s = <<>> THEN [h |-> h, items |-> <<>>]
  ELSE LET o == NewResourceSpans(h)
           r == CopyAll(h @@ (o :> h[Head(s)]), Tail(s))
       IN  [h |-> r.h, items |-> <<o>> \o r.items]

\* objects some goroutine or the map still refers to
Refs(c, a, r) ==
  UNION {Range(c[k]) : k \in DOMAIN c}
    \cup ({a[p] : p \in Threads} \ {NoObj})
    \cup UNION {Range(r[p].items) : p \in Threads}
    \cup UNION {Range(tmp[p]) : p \in Threads}

Collect(h, c, a, r) == [o \in (DOMAIN h) \cap Refs(c, a, r) |-> h[o]]

Values(h, s) == [i \in DOMAIN s |-> h[s[i]]]

\* ------------------------------------------------------------ return values
\* nil: the slice is the nil slice; err: the error result ("nil" or "none")
NoRet == [kind |-> "none", nil |-> TRUE, items |-> <<>>, n |-> 0, err |-> "none"]

\* return nil (createOrAppend, start, shutdown)
ErrRet == [kind |-> "error", nil |-> TRUE, items |-> <<>>, n |-> 0, err |-> "nil"]

\* return result, nil: result stays the nil slice when the loop never ran
SliceRet(s) == [kind |-> "slice", nil |-> (s = <<>>), items |-> s, n |-> 0, err |-> "nil"]

\* return nil, nil
NilSliceRet == [kind |-> "slice", nil |-> TRUE, items |-> <<>>, n |-> 0, err |-> "nil"]

IntRet(n) == [kind |-> "int", nil |-> TRUE, items |-> <<>>, n |-> n, err |-> "none"]

\* ----------------------------------------------------------------- history
WriterPcs == {"ca_call", "ca_wait", "ca_append", "ca_store", "ca_unlock", "ca_ret",
              "del_call", "del_wait", "del_remove", "del_unlock", "del_ret"}

DataPcs == WriterPcs \cup {"get_call", "get_read", "get_unlock", "get_ret"}

OtherWriter(t, k) == \E u \in Threads \ {t} : pc[u] \in WriterPcs /\ key[u] = k

\* iso after thread t starts a call on key k; w: the call is a writer
IsoOnCall(t, k, w) ==
  [u \in Threads |->
     IF u = t THEN ~OtherWriter(t, k)
     ELSE IF w /\ pc[u] \in DataPcs /\ key[u] = k THEN FALSE
     ELSE iso[u]]

\* payload of the batch of the n-th call; touched: a caller wrote to the object
Batch(n) == [batch |-> n, touched |-> FALSE]

Touch(v) == [v EXCEPT !.touched = TRUE]

Payloads == {Batch(n) : n \in 1..MaxCalls} \cup {Touch(Batch(n)) : n \in 1..MaxCalls}

\* seqv: ok while the calls on the key followed one another; s: the entry
\* they built
Tainted == [ok |-> FALSE, s |-> <<>>]

Built(s) == [ok |-> TRUE, s |-> s]

ZeroBag == [v \in Payloads |-> 0]

AddBag(b, s) ==
  [v \in DOMAIN b |-> b[v] + Cardinality({i \in DOMAIN s : s[i] = v})]

\* ---------------------------------------------------------------- initial
InitStore ==
  /\ content = <<>>
  /\ heap = <<>>
  /\ mu = FreeLock
  /\ stoppedLock = FreeLock
  /\ stopped = FALSE
  /\ pc = [t \in Threads |-> "idle"]
  /\ key = [t \in Threads |-> <<>>]
  /\ arg = [t \in Threads |-> NoObj]
  /\ tmp = [t \in Threads |-> <<>>]
  /\ ret = [t \in Threads |-> NoRet]
  /\ cpc = [c \in Chains |-> "off"]
  /\ numTraces = [c \in Chains |-> 0]
  /\ cstopped = [c \in Chains |-> FALSE]
  /\ gauge = -1
  /\ seqv = [k \in Keys |-> Built(<<>>)]
  /\ iso = [t \in Threads |-> TRUE]
  /\ nApp = [k \in Keys |-> ZeroBag]
  /\ nDel = [k \in Keys |-> ZeroBag]
  /\ live = [k \in Keys |-> FALSE]
  /\ delCalled = {}
  /\ lastW = [k \in Keys |-> FALSE]

\* the callers issue at most MaxCalls calls
Init == InitStore /\ calls = 0

\* the callers issue at most FairCalls calls
FairInit == InitStore /\ calls = MaxCalls - FairCalls

lifeVars == <<stoppedLock, stopped, cpc, numTraces, cstopped, gauge>>
histVars == <<seqv, iso, nApp, nDel, live, delCalled, lastW>>

\* A caller starting a new call lets go of what the previous call gave it.
CanCall(t) == pc[t] = "idle" /\ calls < MaxCalls

Drop(f, t, v) == [f EXCEPT ![t] = v]

\* ------------------------------------------------------------ createOrAppend
\* the caller builds rs and calls; sTraceID := traceID.HexString()
createOrAppend_Call(t, id) ==
  /\ CanCall(t)
  /\ LET k == HexString(id)
         r == Drop(ret, t, NoRet)
         h == Collect(heap, content, Drop(arg, t, NoObj), r)
         o == NewResourceSpans(h)
     IN  /\ key' = [key EXCEPT ![t] = k]
         /\ arg' = [arg EXCEPT ![t] = o]
         /\ ret' = r
         /\ heap' = h @@ (o :> Batch(calls + 1))
         /\ iso' = IsoOnCall(t, k, TRUE)
         /\ seqv' = [seqv EXCEPT ![k] = IF OtherWriter(t, k) THEN Tainted ELSE @]
  /\ pc' = [pc EXCEPT ![t] = "ca_call"]
  /\ calls' = calls + 1
  /\ UNCHANGED <<content, mu, tmp, nApp, nDel, live, delCalled, lastW>>
  /\ UNCHANGED lifeVars

\* st.Lock(), first half: the writer announces itself
createOrAppend_Announce(t) ==
  /\ pc[t] = "ca_call"
  /\ CanAnnounce(mu)
  /\ mu' = Announce(mu, t)
  /\ pc' = [pc EXCEPT ![t] = "ca_wait"]
  /\ UNCHANGED <<content, heap, key, arg, tmp, ret, calls>>
  /\ UNCHANGED lifeVars
  /\ UNCHANGED histVars

\* st.content[sTraceID]: the nil slice when the key is missing
LookupOrNil(c, k) == IF k \in DOMAIN c THEN c[k] ELSE <<>>

\* if _, ok := st.content[sTraceID]; !ok { st.content[sTraceID] = []... }
EnsureEntry(c, k) == IF k \in DOMAIN c THEN c ELSE c @@ (k :> <<>>)

\* st.Lock(), second half: the readers have left; then the check of line 49
createOrAppend_Lock(t) ==
  /\ pc[t] = "ca_wait"
  /\ CanLock(mu, t)
  /\ mu' = Lock(mu, t)
  /\ content' = EnsureEntry(content, key[t])
  /\ pc' = [pc EXCEPT ![t] = "ca_append"]
  /\ UNCHANGED <<heap, key, arg, tmp, ret, calls>>
  /\ UNCHANGED lifeVars
  /\ UNCHANGED histVars

\* the caller's rs stored as it is, without CopyTo
StoredAlias(h, o) == [h |-> h, obj |-> o]

\* newRS := pdata.NewResourceSpans(); rs.CopyTo(newRS)
StoredCopy(h, o) == LET n == NewResourceSpans(h) IN [h |-> h @@ (n :> h[o]), obj |-> n]

\* the new batch put in front of the slice
AppendEntryFront(s, o) == <<o>> \o s

\* the new batch put in place of the slice
AppendEntryReplace(s, o) == <<o>>

\* append(st.content[sTraceID], newRS)
AppendEntry(s, o) == Append(s, o)

\* lines 53-55, right-hand side: the copy, and the slice append() returns
createOrAppend_Append(t) ==
  /\ pc[t] = "ca_append"
  /\ LET cp == StoredCopy(heap, arg[t])
     IN  /\ heap' = cp.h
         /\ tmp' = [tmp EXCEPT ![t] = AppendEntry(LookupOrNil(content, key[t]), cp.obj)]
  /\ pc' = [pc EXCEPT ![t] = "ca_store"]
  /\ UNCHANGED <<content, mu, key, arg, ret, calls>>
  /\ UNCHANGED lifeVars
  /\ UNCHANGED histVars

\* a store that keeps the stored key alone in the map
StoreEntryOnly(c, k, s) == (k :> s)

\* st.content[sTraceID] = ...
StoreEntry(c, k, s) == [x \in (DOMAIN c) \cup {k} |-> IF x = k THEN s ELSE c[x]]

\* line 55, the assignment
createOrAppend_Store(t) ==
  /\ pc[t] = "ca_store"
  /\ LET c == StoreEntry(content, key[t], tmp[t])
         m == [tmp EXCEPT ![t] = <<>>]
     IN  /\ content' = c
         /\ tmp' = m
         /\ heap' = [o \in (DOMAIN heap) \cap
                       (UNION {Range(c[k]) : k \in DOMAIN c}
                          \cup ({arg[p] : p \in Threads} \ {NoObj})
                          \cup UNION {Range(ret[p].items) : p \in Threads}
                          \cup UNION {Range(m[p]) : p \in Threads}) |-> heap[o]]
  /\ pc' = [pc EXCEPT ![t] = "ca_unlock"]
  /\ UNCHANGED <<mu, key, arg, ret, calls>>
  /\ UNCHANGED lifeVars
  /\ UNCHANGED histVars

\* deferred st.Unlock()
createOrAppend_Unlock(t) ==
  /\ pc[t] = "ca_unlock"
  /\ mu' = Unlock(mu)
  /\ pc' = [pc EXCEPT ![t] = "ca_ret"]
  /\ lastW' = [lastW EXCEPT ![key[t]] = TRUE]
  /\ UNCHANGED <<content, heap, key, arg, tmp, ret, calls>>
  /\ UNCHANGED lifeVars
  /\ UNCHANGED <<seqv, iso, nApp, nDel, live, delCalled>>

\* return nil: the caller has the result and still holds rs
createOrAppend_Return(t) ==
  /\ pc[t] = "ca_ret"
  /\ ret' = [ret EXCEPT ![t] = ErrRet]
  /\ pc' = [pc EXCEPT ![t] = "idle"]
  /\ key' = [key EXCEPT ![t] = <<>>]
  /\ iso' = [iso EXCEPT ![t] = TRUE]
  /\ seqv' = [seqv EXCEPT ![key[t]] =
                IF iso[t] /\ @.ok THEN Built(Append(@.s, heap[arg[t]])) ELSE Tainted]
  /\ nApp' = [nApp EXCEPT ![key[t]] = AddBag(@, <<heap[arg[t]]>>)]
  /\ live' = [live EXCEPT ![key[t]] = TRUE]
  /\ UNCHANGED <<content, heap, mu, arg, tmp, calls, nDel, delCalled, lastW>>
  /\ UNCHANGED lifeVars

\* ----------------------------------------------------------------------- get
get_Call(t, id) ==
  /\ CanCall(t)
  /\ LET k == HexString(id)
         a == Drop(arg, t, NoObj)
         r == Drop(ret, t, NoRet)
     IN  /\ key' = [key EXCEPT ![t] = k]
         /\ arg' = a
         /\ ret' = r
         /\ heap' = Collect(heap, content, a, r)
         /\ iso' = IsoOnCall(t, k, FALSE)
  /\ pc' = [pc EXCEPT ![t] = "get_call"]
  /\ calls' = calls + 1
  /\ UNCHANGED <<content, mu, tmp, seqv, nApp, nDel, live, delCalled, lastW>>
  /\ UNCHANGED lifeVars

\* st.RLock()
get_RLock(t) ==
  /\ pc[t] = "get_call"
  /\ CanRLock(mu)
  /\ mu' = RLock(mu, t)
  /\ pc' = [pc EXCEPT ![t] = "get_read"]
  /\ UNCHANGED <<content, heap, key, arg, tmp, ret, calls>>
  /\ UNCHANGED lifeVars
  /\ UNCHANGED histVars

\* get handing back the stored slice itself
GetResultAlias(h, s) == [h |-> h, items |-> s]

\* var result; for _, rs := range rss { newRS; rs.CopyTo(newRS); append }
GetResult(h, s) == CopyAll(h, s)

\* return []pdata.ResourceSpans{}, nil for a missing key
GetAbsentEmpty == [NilSliceRet EXCEPT !.nil = FALSE]

\* if !ok { return nil, nil }
GetAbsent == NilSliceRet

\* rss, ok := st.content[sTraceID]; if !ok { return nil, nil }; the copy loop
get_Read(t) ==
  /\ pc[t] = "get_read"
  /\ IF key[t] \in DOMAIN content
       THEN LET r == GetResult(heap, content[key[t]])
            IN  /\ ret' = [ret EXCEPT ![t] = SliceRet(r.items)]
                /\ heap' = r.h
       ELSE /\ ret' = [ret EXCEPT ![t] = GetAbsent]
            /\ heap' = heap
  /\ pc' = [pc EXCEPT ![t] = "get_unlock"]
  /\ UNCHANGED <<content, mu, key, arg, tmp, calls>>
  /\ UNCHANGED lifeVars
  /\ UNCHANGED histVars

\* deferred st.RUnlock()
get_RUnlock(t) ==
  /\ pc[t] = "get_unlock"
  /\ mu' = RUnlock(mu, t)
  /\ pc' = [pc EXCEPT ![t] = "get_ret"]
  /\ UNCHANGED <<content, heap, key, arg, tmp, ret, calls>>
  /\ UNCHANGED lifeVars
  /\ UNCHANGED histVars

get_Return(t) ==
  /\ pc[t] = "get_ret"
  /\ pc' = [pc EXCEPT ![t] = "idle"]
  /\ key' = [key EXCEPT ![t] = <<>>]
  /\ iso' = [iso EXCEPT ![t] = TRUE]
  /\ UNCHANGED <<content, heap, mu, arg, tmp, ret, calls, seqv, nApp, nDel, live, delCalled, lastW>>
  /\ UNCHANGED lifeVars

\* -------------------------------------------------------------------- delete
delete_Call(t, id) ==
  /\ CanCall(t)
  /\ LET k == HexString(id)
         a == Drop(arg, t, NoObj)
         r == Drop(ret, t, NoRet)
     IN  /\ key' = [key EXCEPT ![t] = k]
         /\ arg' = a
         /\ ret' = r
         /\ heap' = Collect(heap, content, a, r)
         /\ iso' = IsoOnCall(t, k, TRUE)
         /\ seqv' = [seqv EXCEPT ![k] = IF OtherWriter(t, k) THEN Tainted ELSE @]
  /\ pc' = [pc EXCEPT ![t] = "del_call"]
  /\ calls' = calls + 1
  /\ UNCHANGED <<content, mu, tmp, nApp, nDel, live, lastW>>
  /\ delCalled' = delCalled \cup {HexString(id)}
  /\ UNCHANGED lifeVars

\* st.Lock(), first half
delete_Announce(t) ==
  /\ pc[t] = "del_call"
  /\ CanAnnounce(mu)
  /\ mu' = Announce(mu, t)
  /\ pc' = [pc EXCEPT ![t] = "del_wait"]
  /\ UNCHANGED <<content, heap, key, arg, tmp, ret, calls>>
  /\ UNCHANGED lifeVars
  /\ UNCHANGED histVars

\* var result; for _, rs := range rss { newRS; rs.CopyTo(newRS); append }
DeleteResult(h, s) == CopyAll(h, s)

\* st.Lock(), second half; then lines 88-94
delete_Lock(t) ==
  /\ pc[t] = "del_wait"
  /\ CanLock(mu, t)
  /\ mu' = Lock(mu, t)
  /\ LET r == DeleteResult(heap, LookupOrNil(content, key[t]))
     IN  /\ ret' = [ret EXCEPT ![t] = SliceRet(r.items)]
         /\ heap' = r.h
  /\ pc' = [pc EXCEPT ![t] = "del_remove"]
  /\ UNCHANGED <<content, key, arg, tmp, calls>>
  /\ UNCHANGED lifeVars
  /\ UNCHANGED histVars

\* a delete that leaves the key in the map
DeleteKeyNoop(c, k) == c

\* a delete that resets the whole map
DeleteKeyAll(c, k) == <<>>

\* a delete that leaves the key in the map with an empty slice
DeleteKeyEmpty(c, k) == IF k \in DOMAIN c THEN [c EXCEPT ![k] = <<>>] ELSE c

\* delete(st.content, sTraceID)
DeleteKey(c, k) == Remove(c, k)

delete_Remove(t) ==
  /\ pc[t] = "del_remove"
  /\ LET c == DeleteKey(content, key[t])
     IN  /\ content' = c
         /\ heap' = Collect(heap, c, arg, ret)
  /\ pc' = [pc EXCEPT ![t] = "del_unlock"]
  /\ UNCHANGED <<mu, key, arg, tmp, ret, calls>>
  /\ UNCHANGED lifeVars
  /\ UNCHANGED histVars

\* deferred st.Unlock()
delete_Unlock(t) ==
  /\ pc[t] = "del_unlock"
  /\ mu' = Unlock(mu)
  /\ pc' = [pc EXCEPT ![t] = "del_ret"]
  /\ lastW' = [lastW EXCEPT ![key[t]] = FALSE]
  /\ UNCHANGED <<content, heap, key, arg, tmp, ret, calls>>
  /\ UNCHANGED lifeVars
  /\ UNCHANGED <<seqv, iso, nApp, nDel, live, delCalled>>

delete_Return(t) ==
  /\ pc[t] = "del_ret"
  /\ pc' = [pc EXCEPT ![t] = "idle"]
  /\ key' = [key EXCEPT ![t] = <<>>]
  /\ iso' = [iso EXCEPT ![t] = TRUE]
  /\ seqv' = [seqv EXCEPT ![key[t]] = IF iso[t] THEN Built(<<>>) ELSE Tainted]
  /\ nDel' = [nDel EXCEPT ![key[t]] = AddBag(@, Values(heap, ret[t].items))]
  /\ live' = [live EXCEPT ![key[t]] = FALSE]
  /\ UNCHANGED <<content, heap, mu, arg, tmp, ret, calls, nApp, delCalled, lastW>>
  /\ UNCHANGED lifeVars

\* --------------------------------------------------------------------- count
count_Call(t) ==
  /\ CanCall(t)
  /\ LET a == Drop(arg, t, NoObj)
         r == Drop(ret, t, NoRet)
     IN  /\ arg' = a
         /\ ret' = r
         /\ heap' = Collect(heap, content, a, r)
  /\ pc' = [pc EXCEPT ![t] = "cnt_call"]
  /\ calls' = calls + 1
  /\ UNCHANGED <<content, mu, key, tmp>>
  /\ UNCHANGED lifeVars
  /\ UNCHANGED histVars

\* a count of the stored batches instead of the keys
ContentLenBatches(c) == Cardinality(UNION {Range(c[k]) : k \in DOMAIN c})

\* len(st.content)
ContentLen(c) == Cardinality(DOMAIN c)

\* st.RLock(); the result is len(st.content)
count_RLock(t) ==
  /\ pc[t] = "cnt_call"
  /\ CanRLock(mu)
  /\ mu' = RLock(mu, t)
  /\ ret' = [ret EXCEPT ![t] = IntRet(ContentLen(content))]
  /\ pc' = [pc EXCEPT ![t] = "cnt_unlock"]
  /\ UNCHANGED <<content, heap, key, arg, tmp, calls>>
  /\ UNCHANGED lifeVars
  /\ UNCHANGED histVars

\* deferred st.RUnlock()
count_RUnlock(t) ==
  /\ pc[t] = "cnt_unlock"
  /\ mu' = RUnlock(mu, t)
  /\ pc' = [pc EXCEPT ![t] = "cnt_ret"]
  /\ UNCHANGED <<content, heap, key, arg, tmp, ret, calls>>
  /\ UNCHANGED lifeVars
  /\ UNCHANGED histVars

count_Return(t) ==
  /\ pc[t] = "cnt_ret"
  /\ pc' = [pc EXCEPT ![t] = "idle"]
  /\ UNCHANGED <<content, heap, mu, key, arg, tmp, ret, calls>>
  /\ UNCHANGED lifeVars
  /\ UNCHANGED histVars

\* ------------------------------------------------- the caller's own batches
\* Between calls a caller may write to any batch it holds: the rs it passed
\* to createOrAppend or a batch of the slice get / delete gave it.
Held(t) == ({arg[t]} \ {NoObj}) \cup Range(ret[t].items)

Mutate(t, o) ==
  /\ pc[t] = "idle"
  /\ o \in Held(t)
  /\ ~heap[o].touched
  /\ heap' = [heap EXCEPT ![o] = Touch(@)]
  /\ UNCHANGED <<content, mu, pc, key, arg, tmp, ret, calls>>
  /\ UNCHANGED lifeVars
  /\ UNCHANGED histVars

\* ------------------------------------------------------------------ shutdown
shutdown_Call(t) ==
  /\ CanCall(t)
  /\ LET a == Drop(arg, t, NoObj)
         r == Drop(ret, t, NoRet)
     IN  /\ arg' = a
         /\ ret' = r
         /\ heap' = Collect(heap, content, a, r)
  /\ pc' = [pc EXCEPT ![t] = "sd_call"]
  /\ calls' = calls + 1
  /\ UNCHANGED <<content, mu, key, tmp>>
  /\ UNCHANGED lifeVars
  /\ UNCHANGED histVars

\* a shutdown that waits for the data lock to be free before it goes on
shutdown_AnnounceAfterData(t) ==
  /\ pc[t] = "sd_call"
  /\ CanAnnounce(stoppedLock)
  /\ CanAnnounce(mu) /\ mu.readers = {}
  /\ stoppedLock' = Announce(stoppedLock, t)
  /\ pc' = [pc EXCEPT ![t] = "sd_wait"]
  /\ UNCHANGED <<content, heap, mu, key, arg, tmp, ret, calls>>
  /\ UNCHANGED <<stopped, cpc, numTraces, cstopped, gauge>>
  /\ UNCHANGED histVars

\* st.stoppedLock.Lock(), first half
shutdown_Announce(t) ==
  /\ pc[t] = "sd_call"
  /\ CanAnnounce(stoppedLock)
  /\ stoppedLock' = Announce(stoppedLock, t)
  /\ pc' = [pc EXCEPT ![t] = "sd_wait"]
  /\ UNCHANGED <<content, heap, mu, key, arg, tmp, ret, calls>>
  /\ UNCHANGED <<stopped, cpc, numTraces, cstopped, gauge>>
  /\ UNCHANGED histVars

\* a shutdown that flips the flag
SetStoppedToggle(b) == ~b

\* st.stopped = true
SetStopped(b) == TRUE

\* a shutdown that also empties the map
shutdown_LockClears(t) ==
  /\ pc[t] = "sd_wait"
  /\ CanLock(stoppedLock, t)
  /\ stoppedLock' = Lock(stoppedLock, t)
  /\ stopped' = TRUE
  /\ content' = <<>>
  /\ heap' = Collect(heap, <<>>, arg, ret)
  /\ pc' = [pc EXCEPT ![t] = "sd_unlock"]
  /\ UNCHANGED <<mu, key, arg, tmp, ret, calls>>
  /\ UNCHANGED <<cpc, numTraces, cstopped, gauge>>
  /\ UNCHANGED histVars

\* st.stoppedLock.Lock(), second half; then the write of line 108
shutdown_Lock(t) ==
  /\ pc[t] = "sd_wait"
  /\ CanLock(stoppedLock, t)
  /\ stoppedLock' = Lock(stoppedLock, t)
  /\ stopped' = SetStopped(stopped)
  /\ pc' = [pc EXCEPT ![t] = "sd_unlock"]
  /\ UNCHANGED <<content, heap, mu, key, arg, tmp, ret, calls>>
  /\ UNCHANGED <<cpc, numTraces, cstopped, gauge>>
  /\ UNCHANGED histVars

\* deferred st.stoppedLock.Unlock()
shutdown_Unlock(t) ==
  /\ pc[t] = "sd_unlock"
  /\ stoppedLock' = Unlock(stoppedLock)
  /\ pc' = [pc EXCEPT ![t] = "sd_ret"]
  /\ UNCHANGED <<content, heap, mu, key, arg, tmp, ret, calls>>
  /\ UNCHANGED <<stopped, cpc, numTraces, cstopped, gauge>>
  /\ UNCHANGED histVars

shutdown_Return(t) ==
  /\ pc[t] = "sd_ret"
  /\ ret' = [ret EXCEPT ![t] = ErrRet]
  /\ pc' = [pc EXCEPT ![t] = "idle"]
  /\ UNCHANGED <<content, heap, mu, key, arg, tmp, calls>>
  /\ UNCHANGED lifeVars
  /\ UNCHANGED histVars

\* --------------------------------------------------------------------- start
\* go st.periodicMetrics(); return nil.  The goroutine started is the lowest
\* chain not yet in use.
start(t) ==
  /\ CanCall(t)
  /\ \E c \in Chains :
       /\ cpc[c] = "off"
       /\ \A d \in Chains : d < c => cpc[d] # "off"
       /\ cpc' = [cpc EXCEPT ![c] = "pm_count"]
  /\ calls' = calls + 1
  /\ UNCHANGED <<content, heap, mu, pc, key, arg, tmp, ret>>
  /\ UNCHANGED <<stoppedLock, stopped, numTraces, cstopped, gauge>>
  /\ UNCHANGED histVars

\* ----------------------------------------------------------- periodicMetrics
callerVars == <<content, heap, pc, key, arg, tmp, ret, calls>>

\* a tick that looks at the flag first and ends the chain without a sample
periodicMetrics_CountChecksFirst(c) ==
  /\ cpc[c] = "pm_count"
  /\ IF stopped
       THEN /\ cpc' = [cpc EXCEPT ![c] = "done"]
            /\ UNCHANGED <<mu, numTraces>>
       ELSE /\ CanRLock(mu)
            /\ mu' = RLock(mu, c)
            /\ numTraces' = [numTraces EXCEPT ![c] = ContentLen(content)]
            /\ cpc' = [cpc EXCEPT ![c] = "pm_runlock"]
  /\ UNCHANGED callerVars
  /\ UNCHANGED <<stoppedLock, stopped, cstopped, gauge>>
  /\ UNCHANGED histVars

\* numTraces := st.count(): st.RLock(); len(st.content)
periodicMetrics_Count(c) ==
  /\ cpc[c] = "pm_count"
  /\ CanRLock(mu)
  /\ mu' = RLock(mu, c)
  /\ numTraces' = [numTraces EXCEPT ![c] = ContentLen(content)]
  /\ cpc' = [cpc EXCEPT ![c] = "pm_runlock"]
  /\ UNCHANGED callerVars
  /\ UNCHANGED <<stoppedLock, stopped, cstopped, gauge>>
  /\ UNCHANGED histVars

\* deferred st.RUnlock() of count
periodicMetrics_CountRUnlock(c) ==
  /\ cpc[c] = "pm_runlock"
  /\ mu' = RUnlock(mu, c)
  /\ cpc' = [cpc EXCEPT ![c] = "pm_record"]
  /\ UNCHANGED callerVars
  /\ UNCHANGED <<stoppedLock, stopped, numTraces, cstopped, gauge>>
  /\ UNCHANGED histVars

\* stats.Record(context.Background(), mNumTracesInMemory.M(int64(numTraces)))
periodicMetrics_Record(c) ==
  /\ cpc[c] = "pm_record"
  /\ gauge' = numTraces[c]
  /\ numTraces' = [numTraces EXCEPT ![c] = 0]
  /\ cpc' = [cpc EXCEPT ![c] = "pm_srlock"]
  /\ UNCHANGED callerVars
  /\ UNCHANGED <<mu, stoppedLock, stopped, cstopped>>
  /\ UNCHANGED histVars

\* st.stoppedLock.RLock(); stopped := st.stopped
periodicMetrics_ReadStopped(c) ==
  /\ cpc[c] = "pm_srlock"
  /\ CanRLock(stoppedLock)
  /\ stoppedLock' = RLock(stoppedLock, c)
  /\ cstopped' = [cstopped EXCEPT ![c] = stopped]
  /\ cpc' = [cpc EXCEPT ![c] = "pm_srunlock"]
  /\ UNCHANGED callerVars
  /\ UNCHANGED <<mu, stopped, numTraces, gauge>>
  /\ UNCHANGED histVars

\* a tick that arms the timer when it read the flag as set
AfterTickInverted(b) == IF b THEN "timer" ELSE "done"

\* a tick that arms the timer whatever it read
AfterTickAlways(b) == "timer"

\* if stopped { return }; time.AfterFunc(st.metricsCollectionInterval, ...)
AfterTick(b) == IF b THEN "done" ELSE "timer"

\* st.stoppedLock.RUnlock(); then the branch of line 119
periodicMetrics_Branch(c) ==
  /\ cpc[c] = "pm_srunlock"
  /\ stoppedLock' = RUnlock(stoppedLock, c)
  /\ cpc' = [cpc EXCEPT ![c] = AfterTick(cstopped[c])]
  /\ cstopped' = [cstopped EXCEPT ![c] = FALSE]
  /\ UNCHANGED callerVars
  /\ UNCHANGED <<mu, stopped, numTraces, gauge>>
  /\ UNCHANGED histVars

\* the timer armed by time.AfterFunc fires: func() { st.periodicMetrics() }
periodicMetrics_TimerFires(c) ==
  /\ cpc[c] = "timer"
  /\ cpc' = [cpc EXCEPT ![c] = "pm_count"]
  /\ UNCHANGED callerVars
  /\ UNCHANGED <<mu, stoppedLock, stopped, numTraces, cstopped, gauge>>
  /\ UNCHANGED histVars

\* a caller issues a call, starts the sampling, or writes to a batch it holds
CallerCalls(t) ==
    \/ \E id \in TraceIDs : createOrAppend_Call(t, id)
    \/ \E id \in TraceIDs : get_Call(t, id)
    \/ \E id \in TraceIDs : delete_Call(t, id)
    \/ count_Call(t)
    \/ shutdown_Call(t)
    \/ start(t)
    \/ \E o \in DOMAIN heap : Mutate(t, o)

\* the steps of a call in progress
CallerSteps(t) ==
    \/ createOrAppend_Announce(t)
    \/ createOrAppend_Lock(t)
    \/ createOrAppend_Append(t)
    \/ createOrAppend_Store(t)
    \/ createOrAppend_Unlock(t)
    \/ createOrAppend_Return(t)
    \/ get_RLock(t)
    \/ get_Read(t)
    \/ get_RUnlock(t)
    \/ get_Return(t)
    \/ delete_Announce(t)
    \/ delete_Lock(t)
    \/ delete_Remove(t)
    \/ delete_Unlock(t)
    \/ delete_Return(t)
    \/ count_RLock(t)
    \/ count_RUnlock(t)
    \/ count_Return(t)
    \/ shutdown_Announce(t)
    \/ shutdown_Lock(t)
    \/ shutdown_Unlock(t)
    \/ shutdown_Return(t)

ChainNext(c) ==
    \/ periodicMetrics_Count(c)
    \/ periodicMetrics_CountRUnlock(c)
    \/ periodicMetrics_Record(c)
    \/ periodicMetrics_ReadStopped(c)
    \/ periodicMetrics_Branch(c)
    \/ periodicMetrics_TimerFires(c)

Next ==
  \/ \E t \in Threads : CallerCalls(t)
  \/ \E t \in Threads : CallerSteps(t)
  \/ \E c \in Chains : ChainNext(c)

Spec == Init /\ [][Next]_vars

\* The Go scheduler runs every runnable goroutine and fires every armed
\* timer: a call in progress and a sampling tick keep taking their steps.
\* Nothing obliges a caller to issue a call.
Fairness ==
  /\ \A t \in Threads : WF_vars(CallerSteps(t))
  /\ \A c \in Chains : WF_vars(ChainNext(c))

FairSpec == FairInit /\ [][Next]_vars /\ Fairness

\* the steps of a shutdown call in progress
ShutdownSteps(t) ==
    \/ shutdown_Announce(t)
    \/ shutdown_Lock(t)
    \/ shutdown_Unlock(t)
    \/ shutdown_Return(t)

\* Only the goroutines that use stoppedLock are scheduled for sure: a
\* shutdown in progress, and a tick releasing its read lock on the flag.  A
\* goroutine inside createOrAppend, get, delete or count may stay where it
\* is for ever, the data lock in its hands.
ShutdownFairness ==
  /\ \A t \in Threads : WF_vars(ShutdownSteps(t))
  /\ \A c \in Chains : WF_vars(periodicMetrics_Branch(c))

ShutdownFairSpec == FairInit /\ [][Next]_vars /\ ShutdownFairness

\* ------------------------------------------------------------- properties
StoredObjs == UNION {Range(content[k]) : k \in DOMAIN content}

\* what a get or delete of each key would hand back now
StoredValues == [k \in DOMAIN content |-> Values(heap, content[k])]

BagOf(s) == AddBag(ZeroBag, s)

BagSum(a, b) == [v \in Payloads |-> a[v] + b[v]]

CaPcs == {"ca_call", "ca_wait", "ca_append", "ca_store", "ca_unlock", "ca_ret"}

AppendInFlight(k) == \E t \in Threads : pc[t] \in CaPcs /\ key[t] = k

WriterInFlight(k) == \E t \in Threads : pc[t] \in WriterPcs /\ key[t] = k

\* C1: when the createOrAppend calls on a key follow one another from the
\* key being absent (no call overlapping another writer of the key, no
\* delete since), a get that follows them returns exactly the batches
\* appended, in the order of the calls.
C1_GetReturnsAppendedInOrder ==
  \A t \in Threads :
    (pc[t] = "get_ret" /\ iso[t] /\ seqv[key[t]].ok)
      => Values(heap, ret[t].items) = seqv[key[t]].s

C1_Witness ==
  \E t \in Threads :
    /\ pc[t] = "get_ret" /\ iso[t] /\ seqv[key[t]].ok
    /\ Len(seqv[key[t]].s) >= 2
    /\ Len(ret[t].items) = Len(seqv[key[t]].s)

\* C2: with no delete issued for a key, once every createOrAppend call on
\* the key has returned, the entry holds each appended batch exactly once,
\* however the calls overlapped.
C2_NoLostUpdates ==
  \A k \in Keys :
    (k \notin delCalled /\ ~AppendInFlight(k))
      => BagOf(Values(heap, LookupOrNil(content, k))) = nApp[k]

C2_Witness ==
  \E k \in Keys :
    /\ k \notin delCalled /\ ~AppendInFlight(k)
    /\ ~seqv[k].ok
    /\ k \in DOMAIN content /\ Len(content[k]) = 2

\* C3: delete reads and removes as one step: once the calls on a key have
\* returned, every appended batch is in exactly one place, the result of a
\* delete or the entry stored for the key.
C3_DeleteAtomic ==
  \A k \in Keys :
    ~WriterInFlight(k)
      => nApp[k] = BagSum(BagOf(Values(heap, LookupOrNil(content, k))), nDel[k])

C3_Witness ==
  \E k \in Keys :
    /\ ~WriterInFlight(k)
    /\ ~seqv[k].ok
    /\ nDel[k] # ZeroBag

\* C4: the batches get and delete hand back are copies: none is an object
\* of the map or of another caller's result, and a caller writing to a
\* batch it was handed changes neither what the map holds nor what another
\* caller was handed.
C4_NoAlias ==
  \A t \in Threads :
    /\ Range(ret[t].items) \cap StoredObjs = {}
    /\ Cardinality(Range(ret[t].items)) = Len(ret[t].items)
    /\ \A u \in Threads \ {t} : Range(ret[t].items) \cap Range(ret[u].items) = {}

C4_MutateStep ==
  \A t \in Threads : \A o \in DOMAIN heap :
    (Mutate(t, o) /\ o \in Range(ret[t].items))
      => /\ StoredValues' = StoredValues
         /\ \A u \in Threads \ {t} :
              Values(heap', ret[u].items) = Values(heap, ret[u].items)

C4_ResultsAreCopies == [](C4_NoAlias) /\ [][C4_MutateStep]_vars

C4_Witness ==
  \E t \in Threads : \E o \in Range(ret[t].items) : \E k \in DOMAIN content :
    /\ pc[t] = "idle"
    /\ heap[o].touched
    /\ \E i \in DOMAIN content[k] : heap[content[k][i]].batch = heap[o].batch

\* C5: createOrAppend stores a copy of its argument: the caller's object is
\* never an object of the map, and the caller writing to it after the call
\* changes nothing a later get or delete returns.
C5_ArgNotStored == \A t \in Threads : arg[t] \notin StoredObjs

C5_MutateStep ==
  \A t \in Threads : \A o \in DOMAIN heap :
    (Mutate(t, o) /\ o = arg[t]) => StoredValues' = StoredValues

C5_StoresCopy == [](C5_ArgNotStored) /\ [][C5_MutateStep]_vars

C5_Witness ==
  \E t \in Threads : \E k \in DOMAIN content :
    /\ pc[t] = "idle"
    /\ arg[t] # NoObj
    /\ heap[arg[t]].touched
    /\ \E i \in DOMAIN content[k] :
         heap[content[k][i]] = Batch(heap[arg[t]].batch)

\* C6: get of a key that is not in the map (never appended, or deleted and
\* not appended since) returns the nil slice and the nil error.
C6_GetAbsentIsNil ==
  \A t \in Threads :
    (pc[t] = "get_ret" /\ iso[t] /\ seqv[key[t]] = Built(<<>>))
      => (ret[t].kind = "slice" /\ ret[t].nil /\ ret[t].items = <<>>
            /\ ret[t].err = "nil")

C6_Witness ==
  \E t \in Threads :
    /\ pc[t] = "get_ret" /\ iso[t] /\ seqv[key[t]] = Built(<<>>)
    /\ key[t] \in delCalled
    /\ nApp[key[t]] # ZeroBag

\* C7: delete of a present key returns the whole entry in insertion order
\* and removes the key: the map has one key less and the key is absent.
C7_DeleteResult ==
  \A t \in Threads :
    (pc[t] = "del_ret" /\ iso[t] /\ seqv[key[t]].ok /\ seqv[key[t]].s # <<>>)
      => /\ Values(heap, ret[t].items) = seqv[key[t]].s
         /\ key[t] \notin DOMAIN content

C7_RemoveStep ==
  \A t \in Threads :
    (delete_Remove(t) /\ key[t] \in DOMAIN content)
      => /\ ContentLen(content') = ContentLen(content) - 1
         /\ key[t] \notin DOMAIN content'
         /\ Values(heap, ret[t].items) = Values(heap, content[key[t]])

C7_DeleteReturnsAndRemoves == [](C7_DeleteResult) /\ [][C7_RemoveStep]_vars

C7_Witness ==
  \E t \in Threads :
    /\ pc[t] = "del_ret" /\ iso[t] /\ seqv[key[t]].ok
    /\ Len(seqv[key[t]].s) >= 2
    /\ Len(ret[t].items) = 2
    /\ key[t] \notin DOMAIN content

\* C8: delete of a key that is not in the map returns an empty slice and
\* the nil error, and leaves the map as it was.
C8_LockStep ==
  \A t \in Threads :
    (delete_Lock(t) /\ key[t] \notin DOMAIN content)
      => /\ ret'[t].kind = "slice" /\ ret'[t].items = <<>> /\ ret'[t].err = "nil"
         /\ content' = content

C8_RemoveStep ==
  \A t \in Threads :
    (delete_Remove(t) /\ key[t] \notin DOMAIN content)
      => /\ content' = content
         /\ StoredValues' = StoredValues
         /\ ret'[t].items = <<>>

C8_DeleteAbsent == [][C8_LockStep /\ C8_RemoveStep]_vars

C8_Witness ==
  \E t \in Threads :
    /\ pc[t] = "del_ret" /\ iso[t]
    /\ seqv[key[t]] = Built(<<>>)
    /\ ret[t].items = <<>>
    /\ DOMAIN content # {}

\* C9 as stated: when every other call has returned, count() is the number
\* of keys for which a createOrAppend call has returned since the last
\* delete call of the key returned.
C9_CountByReturnOrder ==
  [][\A t \in Threads :
       (count_RLock(t) /\ \A u \in Threads \ {t} : pc[u] = "idle")
         => ret'[t].n = Cardinality({k \in Keys : live[k]})]_vars

\* C9, amended: count() is the number of keys for which a createOrAppend
\* has held the data lock since the last delete of the key held it (the
\* order in which the calls released the lock, not the order in which they
\* returned to their callers); the count taken by a sampling tick as well.
C9_CountStep ==
  /\ \A t \in Threads :
       count_RLock(t) => ret'[t].n = Cardinality({k \in Keys : lastW[k]})
  /\ \A c \in Chains :
       periodicMetrics_Count(c)
         => numTraces'[c] = Cardinality({k \in Keys : lastW[k]})

C9_CountByLockOrder == [][C9_CountStep]_vars

C9_Witness ==
  \E t \in Threads : \E k \in Keys :
    /\ pc[t] = "cnt_unlock"
    /\ \A u \in Threads \ {t} : pc[u] = "idle"
    /\ ret[t].n = 0
    /\ live[k] /\ ~lastW[k]

\* C10: a tick that has not read the flag when shutdown has set it reads
\* it as set and ends the chain without arming a timer; with the goroutines
\* scheduled fairly, a started chain ends once the flag is set.
TickBeforeRead == {"pm_count", "pm_runlock", "pm_record", "pm_srlock"}

C10_StopsAfterShutdown ==
  \A c \in Chains :
    /\ []((stopped /\ cpc[c] \in TickBeforeRead) => [](cpc[c] # "timer"))
    /\ (stopped /\ cpc[c] # "off") ~> (cpc[c] = "done")

C10_Witness ==
  \E c \in Chains :
    /\ stopped
    /\ cpc[c] = "done"
    /\ gauge >= 0
    /\ \A t \in Threads : pc[t] = "idle"

\* C11: once a tick of a sampling chain has read the stopped flag as true,
\* that chain records no metric sample any more: it is never again at the
\* stats.Record of line 114.
ObservedStopped(c) == cpc[c] = "pm_srunlock" /\ cstopped[c]

C11_NoSampleAfterObserved ==
  \A c \in Chains :
    [](ObservedStopped(c)
         => [](cpc[c] \in {"pm_srunlock", "done"}
                 /\ ~ENABLED periodicMetrics_Record(c)))

C11_Witness ==
  \E c \in Chains :
    /\ cpc[c] = "done"
    /\ stopped
    /\ gauge >= 1

\* C12: the data lock gives writers exclusive access.  While a
\* createOrAppend or a delete is between its Lock and its Unlock, no other
\* createOrAppend, delete, get or count (a sampling tick's count included)
\* is between its lock and its unlock; readers may be there together.  A
\* get therefore copies the entry as it stands at the instant of its read,
\* with no writer half way through: no entry created and still empty, no
\* slice built by append and not yet stored.
WriterInside == {"ca_append", "ca_store", "ca_unlock", "del_remove", "del_unlock"}

ReaderInside == {"get_read", "get_unlock", "cnt_unlock"}

C12_Exclusive ==
  \A t \in Threads :
    pc[t] \in WriterInside
      => /\ mu.writer = t
         /\ \A u \in Threads \ {t} : pc[u] \notin (WriterInside \cup ReaderInside)
         /\ \A c \in Chains : cpc[c] # "pm_runlock"

C12_GetStep ==
  \A t \in Threads :
    get_Read(t)
      => /\ \A u \in Threads : pc[u] \notin WriterInside
         /\ \A u \in Threads : tmp[u] = <<>>
         /\ \A k \in DOMAIN content : content[k] # <<>>
         /\ Values(heap', ret'[t].items) = Values(heap, LookupOrNil(content, key[t]))
         /\ content' = content

C12_WritersExclusive == [](C12_Exclusive) /\ [][C12_GetStep]_vars

C12_Witness ==
  \E t \in Threads : \E u \in Threads \ {t} :
    /\ pc[t] = "get_unlock"
    /\ pc[u] \in ReaderInside
    /\ Len(ret[t].items) >= 1
    /\ mu.readers = {t, u}

\* C13: shutdown takes stoppedLock only.  No step of shutdown touches the
\* data lock, a goroutine in shutdown holds no part of it, and a shutdown
\* in progress returns even when the goroutines holding the data lock
\* never move again.
SdPcs == {"sd_call", "sd_wait", "sd_unlock", "sd_ret"}

C13_HoldsNoDataLock ==
  \A t \in Threads :
    pc[t] \in SdPcs => (mu.writer # t /\ mu.pending # t /\ t \notin mu.readers)

C13_ShutdownStep ==
  \A t \in Threads : ShutdownSteps(t) => mu' = mu

C13_ShutdownNoContention ==
  /\ [](C13_HoldsNoDataLock)
  /\ [][C13_ShutdownStep]_vars
  /\ \A t \in Threads : (pc[t] \in SdPcs) ~> (pc[t] = "idle" /\ stopped)

C13_Witness ==
  \E t \in Threads : \E u \in Threads \ {t} :
    /\ pc[t] = "sd_ret"
    /\ stopped
    /\ pc[u] \in WriterInside
    /\ mu.writer = u

\* C14: delete is the only operation that removes a key.  A step that makes
\* a present key absent is the delete(st.content, sTraceID) of a delete call
\* on that key; a step that makes an absent key present is the creation of
\* the entry by a createOrAppend call on that key, so a deleted key stays
\* absent until a createOrAppend recreates it.
C14_RemovedByDelete ==
  \A k \in Keys :
    (k \in DOMAIN content /\ k \notin DOMAIN content')
      => \E t \in Threads : delete_Remove(t) /\ key[t] = k

C14_CreatedByAppend ==
  \A k \in Keys :
    (k \notin DOMAIN content /\ k \in DOMAIN content')
      => \E t \in Threads : createOrAppend_Lock(t) /\ key[t] = k

C14_OnlyDeleteRemoves == [][C14_RemovedByDelete /\ C14_CreatedByAppend]_vars

C14_Witness ==
  \E k \in Keys :
    /\ nDel[k] # ZeroBag
    /\ k \in DOMAIN content
    /\ content[k] # <<>>
    /\ \A t \in Threads : pc[t] = "idle"

\* C15: get, count, start, shutdown and the sampling tick leave the map as
\* it is, key set and every entry; shutdown does not clear it.  The data
\* operations neither read nor write the stopped flag: with the flag set a
\* createOrAppend still appends its batch at the end of the entry, a get
\* still copies the entry, a delete still removes the key and a count still
\* is the number of keys.
GetSteps(t) == get_RLock(t) \/ get_Read(t) \/ get_RUnlock(t) \/ get_Return(t)

CountSteps(t) == count_RLock(t) \/ count_RUnlock(t) \/ count_Return(t)

C15_ReadOnlyStep ==
  /\ \A t \in Threads :
       (\/ \E id \in TraceIDs : get_Call(t, id)
        \/ GetSteps(t)
        \/ count_Call(t)
        \/ CountSteps(t)
        \/ start(t)
        \/ shutdown_Call(t)
        \/ ShutdownSteps(t))
         => (content' = content /\ StoredValues' = StoredValues)
  /\ \A c \in Chains :
       ChainNext(c) => (content' = content /\ StoredValues' = StoredValues)

C15_DataStep ==
  \A t \in Threads :
    /\ (createOrAppend_Announce(t) \/ createOrAppend_Lock(t) \/ createOrAppend_Append(t)
          \/ createOrAppend_Store(t) \/ createOrAppend_Unlock(t) \/ createOrAppend_Return(t)
          \/ GetSteps(t) \/ CountSteps(t)
          \/ delete_Announce(t) \/ delete_Lock(t) \/ delete_Remove(t)
          \/ delete_Unlock(t) \/ delete_Return(t))
         => (stopped' = stopped /\ stoppedLock' = stoppedLock)
    /\ createOrAppend_Store(t)
         => Values(heap', content'[key[t]])
              = Append(Values(heap, content[key[t]]), heap[arg[t]])
    /\ get_Read(t)
         => Values(heap', ret'[t].items) = Values(heap, LookupOrNil(content, key[t]))
    /\ delete_Remove(t)
         => (key[t] \notin DOMAIN content'
               /\ \A k \in (DOMAIN content) \ {key[t]} :
                    k \in DOMAIN content' /\ content'[k] = content[k])
    /\ count_RLock(t) => ret'[t].n = Cardinality(DOMAIN content)

C15_MapUntouched == [][C15_ReadOnlyStep /\ C15_DataStep]_vars

C15_Witness ==
  \E t \in Threads : \E u \in Threads \ {t} :
    /\ stopped
    /\ pc[t] = "ca_unlock"
    /\ heap[arg[t]].batch = 3
    /\ arg[u] # NoObj
    /\ heap[arg[u]].batch = 1
    /\ Len(content[key[t]]) = 2

\* C16: stopping is irreversible.  No step resets the stopped flag and a
\* chain that has ended stays ended; once the flag is set every chain,
\* whether started before or after, is from some moment on for ever either
\* not started or ended: no start brings back a loop that keeps re-arming.
C16_FlagStep == stopped => stopped'

C16_DoneStep == \A c \in Chains : cpc[c] = "done" => cpc'[c] = "done"

C16_StopIrreversible ==
  /\ [][C16_FlagStep /\ C16_DoneStep]_vars
  /\ \A c \in Chains : [](stopped => <>[](cpc[c] \in {"off", "done"}))

C16_Witness ==
  /\ stopped
  /\ \A c \in Chains : cpc[c] = "done"
  /\ \A t \in Threads : pc[t] = "idle"
  /\ calls = 3

\* C17: entries are append-only between deletes.  A step that is not the
\* removal of the key by a delete leaves every entry a prefix of what it
\* becomes: batches are added at the end, none is reordered, merged,
\* replaced or dropped.  With no delete issued, what an earlier get handed
\* back (the caller may have written to its copies since) is a prefix of
\* what a later get of the same key reads.
IsPrefix(a, b) == Len(a) <= Len(b) /\ \A i \in 1..Len(a) : a[i] = b[i]

BatchesOf(h, s) == [i \in DOMAIN s |-> h[s[i]].batch]

C17_EntryStep ==
  \A k \in DOMAIN content :
    ~(\E t \in Threads : delete_Remove(t) /\ key[t] = k)
      => /\ k \in DOMAIN content'
         /\ IsPrefix(Values(heap, content[k]), Values(heap', content'[k]))

GotEarlier(t) ==
  /\ pc[t] \in {"get_unlock", "get_ret", "idle"}
  /\ ret[t].kind = "slice"

SameEntry(t, k) ==
  \/ ret[t].items = <<>>
  \/ heap[ret[t].items[1]].batch \in Range(BatchesOf(heap, LookupOrNil(content, k)))

C17_GetStep ==
  \A u \in Threads : \A t \in Threads \ {u} :
    (get_Read(u) /\ delCalled = {} /\ GotEarlier(t) /\ SameEntry(t, key[u]))
      => IsPrefix(BatchesOf(heap, ret[t].items), BatchesOf(heap', ret'[u].items))

C18_NoEmptyEntry ==
  mu.writer = None => \A k \in DOMAIN content : Len(content[k]) >= 1

C18_ReadStep ==
  /\ \A t \in Threads :
       /\ get_Read(t)
            => ((Len(ret'[t].items) = 0) <=> (key[t] \notin DOMAIN content))
       /\ count_RLock(t)
            => ret'[t].n = Cardinality({k \in DOMAIN content : Len(content[k]) >= 1})
  /\ \A c \in Chains :
       periodicMetrics_Count(c)
         => numTraces'[c] = Cardinality({k \in DOMAIN content : Len(content[k]) >= 1})

C18_EntriesNonEmpty == [](C18_NoEmptyEntry) /\ [][C18_ReadStep]_vars

C18_Witness ==
  \E t \in Threads :
    /\ pc[t] = "get_unlock"
    /\ ret[t].items = <<>>
    /\ mu.writer = None
    /\ key[t] \notin DOMAIN content
    /\ \E k \in DOMAIN content : Len(content[k]) = 2

\* C19: no deadlock.  No goroutine has a part in the data lock and in
\* stoppedLock at the same time (a tick gives back the read lock count took
\* before it asks for stoppedLock); a goroutine that is not inside a call,
\* and a chain that is not inside a tick, holds no lock; and with the
\* goroutines scheduled fairly every call in progress returns and every
\* tick in progress ends, by arming the timer or by ending the chain.
HasPart(l, p) == l.writer = p \/ l.pending = p \/ p \in l.readers

TickPcs == {"pm_count", "pm_runlock", "pm_record", "pm_srlock", "pm_srunlock"}

C19_LocksApart ==
  /\ \A p \in Threads \cup Chains : ~(HasPart(mu, p) /\ HasPart(stoppedLock, p))
  /\ \A t \in Threads :
       pc[t] = "idle" => (~HasPart(mu, t) /\ ~HasPart(stoppedLock, t))
  /\ \A c \in Chains :
       cpc[c] \notin TickPcs => (~HasPart(mu, c) /\ ~HasPart(stoppedLock, c))
  /\ \A c \in Chains :
       cpc[c] \in {"pm_srlock", "pm_srunlock"} => ~HasPart(mu, c)

C19_NoDeadlock ==
  /\ [](C19_LocksApart)
  /\ \A t \in Threads : (pc[t] # "idle") ~> (pc[t] = "idle")
  /\ \A c \in Chains : (cpc[c] \in TickPcs) ~> (cpc[c] \in {"timer", "done"})

C19_Witness ==
  \E t \in Threads : \E c \in Chains : \E d \in Chains \ {c} :
    /\ pc[t] \in {"ca_wait", "del_wait"}
    /\ mu.pending = t
    /\ cpc[c] = "pm_runlock"
    /\ c \in mu.readers
    /\ cpc[d] = "pm_srunlock"
    /\ d \in stoppedLock.readers

\* C20: a tick records its sample before it reads the stopped flag.  The
\* read of the flag follows the stats.Record of the same tick, so a tick
\* that begins with the flag set still records one sample, reads the flag
\* and ends the chain without arming the timer.  Once the flag is set a
\* chain that has recorded never records again: each chain records at most
\* one sample after shutdown, one chain (one start) at most one sample.
AfterRecord == {"pm_srlock", "pm_srunlock", "done"}

C20_OrderStep ==
  \A c \in Chains :
    /\ (cpc[c] # "pm_srlock" /\ cpc'[c] = "pm_srlock")
         => (periodicMetrics_Record(c) /\ gauge' = numTraces[c])
    /\ (cpc[c] # "pm_srunlock" /\ cpc'[c] = "pm_srunlock")
         => (cpc[c] = "pm_srlock" /\ cstopped'[c] = stopped)
    /\ (stopped /\ cpc[c] \in AfterRecord) => cpc'[c] \in AfterRecord
    /\ (cpc[c] # "done" /\ cpc'[c] = "done")
         => (cpc[c] = "pm_srunlock" /\ cstopped[c])

C20_OneSampleAfterShutdown ==
  /\ [][C20_OrderStep]_vars
  /\ \A c \in Chains :
       /\ (stopped /\ cpc[c] = "pm_count") ~> (cpc[c] = "pm_srlock")
       /\ [](stopped /\ cpc[c] = "pm_srlock" => [](cpc[c] \in AfterRecord))
       /\ (stopped /\ cpc[c] = "pm_srlock") ~> (cpc[c] = "done")

C20_Witness ==
  \E u \in Threads : \E t \in Threads \ {u} : \E c \in Chains :
    /\ pc[t] = "idle" /\ ret[t] = NoRet
    /\ pc[u] = "idle" /\ arg[u] # NoObj /\ heap[arg[u]].batch = 3
    /\ stopped
    /\ cpc[c] = "done"
    /\ gauge = 1
    /\ \A d \in Chains \ {c} : cpc[d] = "off"
====
